---- MODULE Spec2Model ----
(***************************************************************************)
(* State-machine model of results/create_plots_from_extracted.py:          *)
(* main() creates the output directory, runs create_taxonomic_plot(), then *)
(* check_statistical_results(), then prints the final banner.              *)
(*                                                                         *)
(* The file system under "results", the interpreter's glob dialect and the *)
(* dataframe library's treatment of non-numeric columns are the program's  *)
(* environment; they are fixed in the initial state and every run of the   *)
(* program is a deterministic walk of main() over them, except for the     *)
(* order in which a directory scan yields its files and the outcome of     *)
(* loading a matched statistics file.                                      *)
(***************************************************************************)
EXTENDS Integers, Sequences, FiniteSets, TLC

(***************************************************************************)
(* Bounds of the model.                                                    *)
(***************************************************************************)
MaxCols == 17        \* columns of the largest genus table (more than TopN)
SmallCols == 2       \* columns of the genus table in the unfavourable trees
MaxStride == 2       \* largest step of the column pattern of a table
MaxRuns == 2         \* consecutive runs of the program on the same tree

(***************************************************************************)
(* Program constants.                                                      *)
(***************************************************************************)
TopN == 15           \* .head(15)

(***************************************************************************)
(* File names and glob patterns, as sequences of characters.               *)
(***************************************************************************)
CsvExt == <<".", "c", "s", "v">>
Pairwise == <<"p", "a", "i", "r", "w", "i", "s", "e">>
Significance == <<"s", "i", "g", "n", "i", "f", "i", "c", "a", "n", "c", "e">>
Permanova == <<"p", "e", "r", "m", "a", "n", "o", "v", "a">>
LevelPrefix == <<"l", "e", "v", "e", "l", "-">>

Level5Csv == LevelPrefix \o <<"5">> \o CsvExt
Level6Csv == LevelPrefix \o <<"6">> \o CsvExt
APairwiseBCsv == <<"a", "_">> \o Pairwise \o <<"_", "b">> \o CsvExt
SigTestCsv == <<"s", "i", "g", "_", "t", "e", "s", "t">> \o CsvExt
PermanovaResultCsv == Permanova \o <<"_", "r", "e", "s", "u", "l", "t">> \o CsvExt
PairwiseSignificancePermanovaCsv == <<"P", "a", "i", "r", "w", "i", "s", "e", "_">> \o Significance \o <<"_">> \o Permanova \o CsvExt

\* the files that may lie somewhere under results/extracted_figures,
\* besides the genus file at its fixed path
OtherFiles == {Level5Csv, APairwiseBCsv, SigTestCsv, PermanovaResultCsv,
               PairwiseSignificancePermanovaCsv}

\* rglob("level-*.csv")
TaxPattern == LevelPrefix \o <<"*">> \o CsvExt

\* stats_patterns = ["*pairwise*", "*significance*", "*permanova*"]
Fragments == <<Pairwise, Significance, Permanova>>
stats_patterns == [i \in 1..3 |-> <<"*">> \o Fragments[i] \o <<"*">>]

\* f"*{pattern}*.csv"
StatsGlobPattern(pattern) == <<"*">> \o pattern \o <<"*">> \o CsvExt

(***************************************************************************)
(* pathlib's pattern matching of one path component.                       *)
(***************************************************************************)
HasDoubleStar(pat) == \E i \in 1..(Len(pat) - 1) : pat[i] = "*" /\ pat[i + 1] = "*"

RECURSIVE Fnmatch(_, _)
Fnmatch(pat, name) ==
    IF pat = <<>> THEN name = <<>>
    ELSE IF Head(pat) = "*"
         THEN \E k \in 0..Len(name) : Fnmatch(Tail(pat), SubSeq(name, k + 1, Len(name)))
         ELSE /\ name # <<>>
              /\ Head(name) = Head(pat)
              /\ Fnmatch(Tail(pat), Tail(name))

\* which names each pattern of the program selects (evaluated once)
TaxMatches == {f \in OtherFiles \cup {Level6Csv} : Fnmatch(TaxPattern, f)}
StatsMatches == [i \in 1..3 |-> {f \in OtherFiles \cup {Level6Csv} : Fnmatch(StatsGlobPattern(stats_patterns[i]), f)}]

\* literal, case-sensitive substring test
Contains(name, frag) ==
    \E k \in 0..(Len(name) - Len(frag)) : SubSeq(name, k + 1, k + Len(frag)) = frag
EndsWithCsv(name) ==
    Len(name) >= Len(CsvExt) /\ SubSeq(name, Len(name) - Len(CsvExt) + 1, Len(name)) = CsvExt

(***************************************************************************)
(* A table is a sequence of columns (labelled by their position), a column *)
(* a sequence of cells as read_csv yields them: a number, an empty cell    *)
(* (NaN) or text.                                                          *)
(***************************************************************************)
Num(v) == [t |-> "num", v |-> v]
NaNCell == [t |-> "nan", v |-> 0]
StrCell == [t |-> "str", v |-> 0]

Palette == << <<Num(0), Num(0)>>, <<Num(1), Num(2)>>, <<Num(3), NaNCell>>, <<Num(2), Num(2)>> >>
AllNaNCol == <<NaNCell, NaNCell>>
TextCol == <<StrCell, Num(1)>>

\* n columns following the palette with stride a from offset b; column k
\* (if any) is replaced by the column s
Table(n, a, b, k, s) ==
    [i \in 1..n |-> IF i = k THEN s ELSE Palette[((a * i + b) % Len(Palette)) + 1]]
Tables(minn, maxn) ==
    UNION {{Table(n, a, b, k, s) : a \in 0..MaxStride, b \in 0..1,
                                   k \in {0, 1, n}, s \in {AllNaNCol, TextCol}} : n \in minn..maxn}

Min(a, b) == IF a <= b THEN a ELSE b

(***************************************************************************)
(* df.mean().sort_values(ascending=False).head(15)                         *)
(***************************************************************************)
IsNumericCol(c) == \A j \in DOMAIN c : c[j].t # "str"

RECURSIVE SumCells(_)
SumCells(c) ==
    IF c = <<>> THEN [sum |-> 0, cnt |-> 0]
    ELSE LET r == SumCells(Tail(c))
         IN  IF Head(c).t = "num"
             THEN [sum |-> r.sum + Head(c).v, cnt |-> r.cnt + 1]
             ELSE r

\* the mean of a numeric column, empty cells skipped: the fraction sum/cnt,
\* NaN when cnt = 0
ColMean(label, c) == [label |-> label, sum |-> SumCells(c).sum, cnt |-> SumCells(c).cnt]
IsNaN(m) == m.cnt = 0

RECURSIVE SelectNumeric(_, _)
SelectNumeric(df, i) ==
    IF i > Len(df) THEN <<>>
    ELSE (IF IsNumericCol(df[i]) THEN <<ColMean(i, df[i])>> ELSE <<>>) \o SelectNumeric(df, i + 1)

\* DataFrame.mean(): a frame with a text column raises TypeError, unless the
\* library is one that silently drops such columns (dropNuisance)
Mean(df, dropNuisance) ==
    IF (\A i \in DOMAIN df : IsNumericCol(df[i])) \/ dropNuisance
    THEN [raises |-> FALSE, value |-> SelectNumeric(df, 1)]
    ELSE [raises |-> TRUE, value |-> <<>>]

\* comparisons of two means, as IEEE comparisons: false when either is NaN
Gt(a, b) == ~IsNaN(a) /\ ~IsNaN(b) /\ a.sum * b.cnt > b.sum * a.cnt
Geq(a, b) == ~IsNaN(a) /\ ~IsNaN(b) /\ a.sum * b.cnt >= b.sum * a.cnt

RECURSIVE Insert(_, _, _)
Insert(x, s, stable) ==
    IF s = <<>> THEN <<x>>
    ELSE IF Gt(Head(s), x) \/ (stable /\ Geq(Head(s), x))
         THEN <<Head(s)>> \o Insert(x, Tail(s), stable)
         ELSE <<x>> \o s

RECURSIVE SortDesc(_, _, _)
SortDesc(s, n, stable) ==
    IF n = 0 THEN <<>> ELSE Insert(s[n], SortDesc(s, n - 1, stable), stable)

Reverse(s) == [i \in 1..Len(s) |-> s[Len(s) + 1 - i]]

\* sort_values() with ascending left at its default
SortValuesAscending(s, stable) ==
    LET nums == SelectSeq(s, LAMBDA m : ~IsNaN(m))
        nans == SelectSeq(s, IsNaN)
    IN  Reverse(SortDesc(nums, Len(nums), stable)) \o nans

\* Series.sort_values(ascending=False): descending by value, NaN entries
\* last; the order among equal values is the sort kernel's (stable or not)
SortValues(s, stable) ==
    LET nums == SelectSeq(s, LAMBDA m : ~IsNaN(m))
        nans == SelectSeq(s, IsNaN)
    IN  SortDesc(nums, Len(nums), stable) \o nans

\* head() keeping one entry too many
HeadNPlusOne(s, n) == SubSeq(s, 1, Min(n + 1, Len(s)))

\* Series.head(n)
HeadN(s, n) == SubSeq(s, 1, Min(n, Len(s)))

TopGenera(df, dropNuisance, stable) ==
    LET m == Mean(df, dropNuisance)
    IN  [raises |-> m.raises,
         value |-> IF m.raises THEN <<>> ELSE HeadN(SortValues(m.value, stable), TopN)]

(***************************************************************************)
(* State.                                                                  *)
(***************************************************************************)
VARIABLES
    resultsDir,    \* the directory "results" exists
    plotsDir,      \* results/plots_from_data: "absent", "dir" or "file"
    png,           \* results/plots_from_data/top_genera.png
    csv,           \* results/plots_from_data/top_genera_summary.csv
    tree,          \* names of the files under results/extracted_figures
    genus_file,    \* .../figure1_taxa_barplot/data/level-6.csv
    globStrict,    \* the interpreter's glob rejects "**" inside a component
    dropNuisance,  \* the dataframe library drops text columns from mean()
    tiesStable,    \* the sort kernel keeps equal values in column order
    pc,            \* position of the run in main()
    exc,           \* the exception that ended the run, "" if none
    df,            \* the loaded genus table
    top_genera,    \* the aggregate series
    pattern,       \* index in stats_patterns of the pattern being scanned
    files,         \* matches of the pattern not yet reported
    file,          \* the match being reported
    log,           \* the lines printed by this run
    wrote,         \* the artifacts written by this run
    start,         \* png and csv as they were when this run began
    run,           \* number of this run
    first          \* how the first run ended

fsVars == <<resultsDir, plotsDir, png, csv, tree, genus_file>>
buildVars == <<globStrict, dropNuisance, tiesStable>>
taxVars == <<df, top_genera>>
statsVars == <<pattern, files, file>>
runVars == <<start, run, first>>
vars == <<fsVars, buildVars, taxVars, statsVars, runVars, pc, exc, log, wrote>>

NoFile == [kind |-> "absent", data |-> <<>>]
DirEntry == [kind |-> "dir", data |-> <<>>]
FileOf(data) == [kind |-> "file", data |-> data]
\* an artifact left by an earlier run on other data
OldFile == FileOf(<<[label |-> 0, sum |-> 0, cnt |-> 1]>>)

NoGenus == [kind |-> "absent", cols |-> <<>>]
GenusDir == [kind |-> "dir", cols |-> <<>>]
GenusGarbage == [kind |-> "garbage", cols |-> <<>>]
GenusTable(t) == [kind |-> "table", cols |-> t]

Line(msg) == [msg |-> msg, arg |-> <<>>]
LineAbout(msg, f) == [msg |-> msg, arg |-> f]
Said(msg) == \E i \in DOMAIN log : log[i].msg = msg
Finished == pc \in {"done", "crashed"}

(***************************************************************************)
(* Library operations over the file system.                               *)
(***************************************************************************)
\* mkdir() without exist_ok: an existing directory raises too
MkdirNoExistOk(parent, target) ==
    IF ~parent THEN "FileNotFoundError"
    ELSE IF target # "absent" THEN "FileExistsError"
    ELSE ""

\* Path("results/plots_from_data").mkdir(exist_ok=True): the exception it
\* raises, "" if none
Mkdir(parent, target) ==
    IF ~parent THEN "FileNotFoundError"
    ELSE IF target = "file" THEN "FileExistsError"
    ELSE ""

\* names of everything below results/extracted_figures
AllNames == tree \cup (IF genus_file.kind = "absent" THEN {} ELSE {Level6Csv})

\* Path("results/extracted_figures").rglob(pat): the exception it raises
\* and the names it yields.  A pathlib that allows "**" only as a whole path
\* component (CPython up to 3.12) raises ValueError for any other use of it,
\* whatever the directory holds; strict = FALSE stands for a glob that reads
\* "**" inside a component as "*"
Rglob(pat, matches, strict) ==
    IF strict /\ HasDoubleStar(pat)
    THEN [raises |-> "ValueError", found |-> {}]
    ELSE [raises |-> "", found |-> AllNames \cap matches]

\* pd.read_csv(genus_file)
ReadCsv(f) ==
    IF f.kind = "table" THEN [raises |-> FALSE, value |-> f.cols]
    ELSE [raises |-> TRUE, value |-> <<>>]

\* writing a file at a path: fails when the path is a directory
WriteFile(entry, data) ==
    IF entry.kind = "dir" THEN [raises |-> TRUE, entry |-> entry]
    ELSE [raises |-> FALSE, entry |-> FileOf(data)]

(***************************************************************************)
(* Initial states: the build, and the tree the program is started in.      *)
(***************************************************************************)
InitRun ==
    /\ pc = "main"
    /\ exc = ""
    /\ df = <<>>
    /\ top_genera = <<>>
    /\ pattern = 0
    /\ files = {}
    /\ file = <<>>
    /\ log = <<>>
    /\ wrote = {}
    /\ start = [png |-> png, csv |-> csv]
    /\ run = 1
    /\ first = [pc |-> "", wrote |-> {}, png |-> NoFile, csv |-> NoFile]

\* no "results" directory at all
InitNoResults ==
    /\ resultsDir = FALSE
    /\ plotsDir = "absent"
    /\ png = NoFile /\ csv = NoFile
    /\ tree = {}
    /\ genus_file = NoGenus

\* every set of statistics files, with and without an output directory
InitTrees ==
    /\ resultsDir = TRUE
    /\ plotsDir \in {"absent", "dir", "file"}
    /\ \E old \in {NoFile, OldFile} :
          /\ plotsDir # "dir" => old = NoFile
          /\ png = old /\ csv = old
    /\ tree \in SUBSET OtherFiles
    /\ genus_file \in {NoGenus, GenusTable(Table(SmallCols, 1, 0, 0, TextCol))}

\* every state of the two artifacts, over the small genus tables
InitOutputs ==
    /\ resultsDir = TRUE
    /\ plotsDir = "dir"
    /\ png \in {NoFile, OldFile, DirEntry}
    /\ csv \in {NoFile, OldFile, DirEntry}
    /\ png = NoFile \/ csv = NoFile \/ png = csv
    /\ tree = {Level5Csv}
    /\ genus_file \in {NoGenus, GenusDir, GenusGarbage} \cup {GenusTable(t) : t \in Tables(1, SmallCols)}

\* the genus tables of about TopN columns and more
InitTables ==
    /\ resultsDir = TRUE
    /\ plotsDir = "dir"
    /\ png = NoFile /\ csv = NoFile
    /\ tree = {}
    /\ genus_file \in {GenusTable(t) : t \in Tables(TopN - 1, MaxCols)}

Init ==
    /\ globStrict \in BOOLEAN
    /\ dropNuisance \in BOOLEAN
    /\ tiesStable \in BOOLEAN
    /\ (InitNoResults \/ InitTrees \/ InitOutputs \/ InitTables)
    /\ InitRun

(***************************************************************************)
(* main(), lines 74-88.                                                    *)
(***************************************************************************)
\* an exception leaves main(): the interpreter prints it and exits with 1
Propagate(e) ==
    /\ pc' = "crashed"
    /\ exc' = e

\* line 75
MainBanner ==
    /\ pc = "main"
    /\ log' = Append(log, Line("=== Creating Plots from Extracted Data ==="))
    /\ pc' = "main_mkdir"
    /\ UNCHANGED <<fsVars, buildVars, taxVars, statsVars, runVars, exc, wrote>>

\* line 78
MainMkdir ==
    /\ pc = "main_mkdir"
    /\ LET e == Mkdir(resultsDir, plotsDir)
       IN  IF e # ""
           THEN Propagate(e) /\ UNCHANGED plotsDir
           ELSE plotsDir' = "dir" /\ pc' = "tax_scan" /\ UNCHANGED exc
    /\ UNCHANGED <<resultsDir, png, csv, tree, genus_file>>
    /\ UNCHANGED <<buildVars, taxVars, statsVars, runVars, log, wrote>>

\* lines 86-88
MainDone ==
    /\ pc = "main_done"
    /\ log' = log \o <<Line("=== DONE ==="), Line("Plots saved to"), Line("Use these")>>
    /\ pc' = "done"
    /\ UNCHANGED <<fsVars, buildVars, taxVars, statsVars, runVars, exc, wrote>>

(***************************************************************************)
(* create_taxonomic_plot(), lines 16-52.                                   *)
(***************************************************************************)
\* lines 51-52: the except clause; the call returns to main()
Caught ==
    /\ log' = Append(log, Line("Error creating taxonomic plot"))
    /\ pc' = "stats"

\* lines 20-23
TaxScan ==
    /\ pc = "tax_scan"
    /\ LET tax_files == Rglob(TaxPattern, TaxMatches, globStrict)
       IN  IF tax_files.raises # "" THEN Caught
           ELSE IF tax_files.found = {}
           THEN /\ log' = Append(log, Line("No taxonomic CSV files found"))
                /\ pc' = "stats"
           ELSE /\ pc' = "tax_exists"
                /\ UNCHANGED log
    /\ UNCHANGED <<fsVars, buildVars, taxVars, statsVars, runVars, exc, wrote>>

\* lines 26-27: an absent genus file ends the call without a word
TaxExists ==
    /\ pc = "tax_exists"
    /\ pc' = IF genus_file.kind # "absent" THEN "tax_read" ELSE "stats"
    /\ UNCHANGED <<fsVars, buildVars, taxVars, statsVars, runVars, exc, log, wrote>>

\* lines 28-30
TaxRead ==
    /\ pc = "tax_read"
    /\ LET r == ReadCsv(genus_file)
       IN  IF r.raises THEN Caught /\ UNCHANGED df
           ELSE /\ df' = r.value
                /\ log' = log \o <<Line("Loaded genus data"), Line("Shape")>>
                /\ pc' = "tax_mkdir"
    /\ UNCHANGED <<fsVars, buildVars, top_genera, statsVars, runVars, exc, wrote>>

\* line 33
TaxMkdir ==
    /\ pc = "tax_mkdir"
    /\ LET e == Mkdir(resultsDir, plotsDir)
       IN  IF e # ""
           THEN Caught /\ UNCHANGED plotsDir
           ELSE plotsDir' = "dir" /\ pc' = "tax_top" /\ UNCHANGED log
    /\ UNCHANGED <<resultsDir, png, csv, tree, genus_file>>
    /\ UNCHANGED <<buildVars, taxVars, statsVars, runVars, exc, wrote>>

\* lines 36-37
TaxTop ==
    /\ pc = "tax_top"
    /\ LET r == TopGenera(df, dropNuisance, tiesStable)
       IN  IF r.raises THEN Caught /\ UNCHANGED top_genera
           ELSE top_genera' = r.value /\ pc' = "tax_plot" /\ UNCHANGED log
    /\ UNCHANGED <<fsVars, buildVars, df, statsVars, runVars, exc, wrote>>

\* lines 38-43: a bar plot of an empty series raises "no numeric data to plot"
TaxPlot ==
    /\ pc = "tax_plot"
    /\ IF top_genera = <<>> THEN Caught
       ELSE pc' = "tax_savefig" /\ UNCHANGED log
    /\ UNCHANGED <<fsVars, buildVars, taxVars, statsVars, runVars, exc, wrote>>

\* lines 44-45
TaxSavefig ==
    /\ pc = "tax_savefig"
    /\ LET w == WriteFile(png, top_genera)
       IN  IF w.raises THEN Caught /\ UNCHANGED <<png, wrote>>
           ELSE /\ png' = w.entry
                /\ wrote' = wrote \cup {"png"}
                /\ log' = Append(log, Line("Saved: results/plots_from_data/top_genera.png"))
                /\ pc' = "tax_to_csv"
    /\ UNCHANGED <<resultsDir, plotsDir, csv, tree, genus_file>>
    /\ UNCHANGED <<buildVars, taxVars, statsVars, runVars, exc>>

\* lines 48-49
TaxToCsv ==
    /\ pc = "tax_to_csv"
    /\ LET w == WriteFile(csv, top_genera)
       IN  IF w.raises THEN Caught /\ UNCHANGED <<csv, wrote>>
           ELSE /\ csv' = w.entry
                /\ wrote' = wrote \cup {"csv"}
                /\ log' = Append(log, Line("Saved: results/plots_from_data/top_genera_summary.csv"))
                /\ pc' = "stats"
    /\ UNCHANGED <<resultsDir, plotsDir, png, tree, genus_file>>
    /\ UNCHANGED <<buildVars, taxVars, statsVars, runVars, exc>>

(***************************************************************************)
(* check_statistical_results(), lines 54-72.                               *)
(***************************************************************************)
\* line 56, and entry of the loop of line 60
StatsBanner ==
    /\ pc = "stats"
    /\ log' = Append(log, Line("=== Checking for Statistical Results ==="))
    /\ pattern' = 1
    /\ pc' = "stats_glob"
    /\ UNCHANGED <<fsVars, buildVars, taxVars, files, file, runVars, exc, wrote>>

\* line 61: nothing catches what rglob raises
StatsGlob ==
    /\ pc = "stats_glob"
    /\ LET r == Rglob(StatsGlobPattern(stats_patterns[pattern]), StatsMatches[pattern], globStrict)
       IN  IF r.raises # ""
           THEN Propagate(r.raises) /\ UNCHANGED files
           ELSE files' = r.found /\ pc' = "stats_files" /\ UNCHANGED exc
    /\ UNCHANGED <<fsVars, buildVars, taxVars, pattern, file, runVars, log, wrote>>

\* lines 62-63: the next match, in the order the scan yields them
StatsFound ==
    /\ pc = "stats_files"
    /\ \E f \in files :
          /\ file' = f
          /\ files' = files \ {f}
          /\ log' = Append(log, LineAbout("Found", f))
    /\ pc' = "stats_load"
    /\ UNCHANGED <<fsVars, buildVars, taxVars, pattern, runVars, exc, wrote>>

\* lines 64-72: the load raises, or yields a table without or with rows
StatsLoad ==
    /\ pc = "stats_load"
    /\ \E outcome \in {"raises", "empty", "rows"} :
          log' = log \o (CASE outcome = "raises" -> <<>>
                           [] outcome = "empty" -> <<Line("Shape"), Line("Columns")>>
                           [] outcome = "rows" -> <<Line("Shape"), Line("Columns"), Line("First few rows")>>)
    /\ pc' = "stats_files"
    /\ UNCHANGED <<fsVars, buildVars, taxVars, statsVars, runVars, exc, wrote>>

\* lines 60, 62: the matches of a pattern are exhausted
StatsNext ==
    /\ pc = "stats_files"
    /\ files = {}
    /\ IF pattern < Len(stats_patterns)
       THEN pattern' = pattern + 1 /\ pc' = "stats_glob"
       ELSE pc' = "main_done" /\ UNCHANGED pattern
    /\ UNCHANGED <<fsVars, buildVars, taxVars, files, file, runVars, exc, log, wrote>>

(***************************************************************************)
(* The program is run again on the tree the previous run left.             *)
(***************************************************************************)
Rerun ==
    /\ Finished
    /\ run < MaxRuns
    /\ run' = run + 1
    /\ first' = IF run = 1 THEN [pc |-> pc, wrote |-> wrote, png |-> png, csv |-> csv] ELSE first
    /\ start' = [png |-> png, csv |-> csv]
    /\ pc' = "main"
    /\ exc' = ""
    /\ df' = <<>>
    /\ top_genera' = <<>>
    /\ pattern' = 0
    /\ files' = {}
    /\ file' = <<>>
    /\ log' = <<>>
    /\ wrote' = {}
    /\ UNCHANGED <<fsVars, buildVars>>

Next ==
    \/ MainBanner \/ MainMkdir \/ MainDone
    \/ TaxScan \/ TaxExists \/ TaxRead \/ TaxMkdir \/ TaxTop \/ TaxPlot
    \/ TaxSavefig \/ TaxToCsv
    \/ StatsBanner \/ StatsGlob \/ StatsFound \/ StatsLoad \/ StatsNext
    \/ Rerun

Spec == Init /\ [][Next]_vars

(***************************************************************************)
(* Vocabulary of the properties.                                           *)
(***************************************************************************)
\* create_taxonomic_plot() was called by this run and has returned
PlotterReturned ==
    \/ pc \in {"stats", "stats_glob", "stats_files", "stats_load", "main_done", "done"}
    \/ pc = "crashed" /\ exc = "ValueError"

\* check_statistical_results() was called by this run and is over
ReporterOver ==
    \/ pc \in {"main_done", "done"}
    \/ pc = "crashed" /\ exc = "ValueError"

\* line 37 has produced the aggregate series of this run
SeriesProduced == pc = "tax_plot" \/ top_genera # <<>>

NumericCols(t) == {i \in DOMAIN t : IsNumericCol(t[i])}
Labels(s) == {s[i].label : i \in DOMAIN s}
\* the numeric columns of the table that the series leaves out
LeftOut == NumericCols(df) \ Labels(top_genera)

\* the .csv files whose name contains the fragment, by literal comparison
Containing(frag) == {f \in AllNames : EndsWithCsv(f) /\ Contains(f, frag)}
FoundLines(f) == {i \in DOMAIN log : log[i] = LineAbout("Found", f)}

(***************************************************************************)
(* C1: a run of main() never ends by an exception: whatever the tree it is *)
(* started in, it reaches the final banner and exits with status 0.        *)
(* Refuted: line 78 raises when "results" is missing or when               *)
(* results/plots_from_data is a regular file, and line 61 raises where the *)
(* glob rejects "**" inside a component.                                   *)
(***************************************************************************)
C1_MainNeverRaises ==
    /\ pc # "crashed"
    /\ pc = "done" => log[Len(log) - 2].msg = "=== DONE ==="

(***************************************************************************)
(* C2: when the genus file is absent, the plotter writes neither artifact, *)
(* leaves earlier ones as they were, and returns, and the run goes on      *)
(* through the Statistics Reporter to the banner.  Refuted in its last     *)
(* part only: the reporter called next raises at line 61 (see C4).         *)
(***************************************************************************)
C2_AbsentGenusNoOutputRunCompletes ==
    (genus_file.kind = "absent" /\ PlotterReturned) =>
        /\ wrote = {}
        /\ png = start.png /\ csv = start.csv
        /\ pc # "crashed"

\* the part of C2 that is about the plotter alone
AbsentGenusWritesNothing ==
    (genus_file.kind = "absent" /\ PlotterReturned) =>
        /\ wrote = {}
        /\ png = start.png /\ csv = start.csv
        /\ ~Said("Error creating taxonomic plot")

(***************************************************************************)
(* C3, as claimed: for a table with at least one numeric column the series *)
(* produced has exactly min(15, number of columns) entries.  Refuted by a  *)
(* table with a text column, which has no mean and gets no entry.          *)
(***************************************************************************)
C3_LengthIsMinOfColumns ==
    (SeriesProduced /\ NumericCols(df) # {}) =>
        Len(top_genera) = Min(TopN, Len(df))

(***************************************************************************)
(* C3, amended: the series produced has exactly min(15, number of numeric  *)
(* columns) entries, hence never more than 15, and min(15, number of       *)
(* columns) entries when every column is numeric.                          *)
(***************************************************************************)
C3_LengthIsMinOfNumericColumns ==
    SeriesProduced =>
        /\ Len(top_genera) = Min(TopN, Cardinality(NumericCols(df)))
        /\ Len(top_genera) <= TopN
        /\ NumericCols(df) = DOMAIN df => Len(top_genera) = Min(TopN, Len(df))

C3_Witness ==
    /\ SeriesProduced
    /\ Len(df) > TopN
    /\ NumericCols(df) # DOMAIN df
    /\ Len(top_genera) = TopN

(***************************************************************************)
(* C4: for each fragment the reporter prints "Found" for exactly the .csv  *)
(* files whose name contains the fragment.  Refuted: the pattern built at  *)
(* line 61 is "**pairwise**.csv", which a glob that allows "**" only as a  *)
(* whole component rejects with ValueError before any file is reported.    *)
(***************************************************************************)
C4_ReportsExactlyTheSubstringMatches ==
    ReporterOver =>
        \A f \in OtherFiles \cup {Level6Csv} :
            Cardinality(FoundLines(f)) =
                Cardinality({k \in DOMAIN Fragments : f \in Containing(Fragments[k])})

\* what holds of line 61 where the glob reads "**" inside a component as "*"
LenientGlobReportsTheSubstringMatches ==
    (~globStrict /\ ReporterOver) => C4_ReportsExactlyTheSubstringMatches

(***************************************************************************)
(* C5, as claimed: the means of the series are in non-increasing order and *)
(* every column left out has a mean no greater than the smallest one kept. *)
(* Refuted by a column of empty cells: its mean is NaN, it is sorted last, *)
(* and no comparison with NaN holds.                                       *)
(***************************************************************************)
C5_SortedNonIncreasing ==
    SeriesProduced =>
        /\ \A i \in 1..(Len(top_genera) - 1) : Geq(top_genera[i], top_genera[i + 1])
        /\ \A j \in LeftOut : \A i \in DOMAIN top_genera :
              Geq(top_genera[i], ColMean(j, df[j]))

(***************************************************************************)
(* C5, amended: the entries whose mean is a number come first, in          *)
(* non-increasing order, the NaN entries after them; and every numeric     *)
(* column left out whose mean is a number has a mean no greater than any   *)
(* mean kept.                                                              *)
(***************************************************************************)
C5_SortedNonIncreasingNaNLast ==
    SeriesProduced =>
        /\ \A i \in 1..(Len(top_genera) - 1) :
              ~IsNaN(top_genera[i + 1]) => Geq(top_genera[i], top_genera[i + 1])
        /\ \A j \in LeftOut : \A i \in DOMAIN top_genera :
              ~IsNaN(ColMean(j, df[j])) => Geq(top_genera[i], ColMean(j, df[j]))

C5_Witness ==
    /\ SeriesProduced
    /\ \E j \in LeftOut : ~IsNaN(ColMean(j, df[j]))
    /\ \E j \in LeftOut : IsNaN(ColMean(j, df[j]))
    /\ \E i \in 1..(Len(top_genera) - 1) : Gt(top_genera[i], top_genera[i + 1])

(***************************************************************************)
(* C6: a second run on the unchanged tree ends as the first did, writes    *)
(* again every artifact the first wrote, over the existing directory and   *)
(* files, and leaves the summary with the content the first gave it.       *)
(***************************************************************************)
C6_SecondRunRepeatsFirst ==
    (run > 1 /\ Finished) =>
        /\ pc = first.pc
        /\ wrote = first.wrote
        /\ "csv" \in wrote => csv = first.csv
        /\ "png" \in wrote => png = first.png

C6_Witness ==
    /\ run > 1
    /\ pc = "done"
    /\ wrote = {"png", "csv"}
    /\ start.csv = first.csv /\ start.csv.kind = "file"
    /\ start.png.kind = "file"
    /\ csv = first.csv

(***************************************************************************)
(* C7: whenever the genus file is absent the plotter prints a line saying  *)
(* so before it returns.  Refuted: when another level-*.csv file exists,   *)
(* line 21 is passed and line 27 skips the body without printing.          *)
(***************************************************************************)
C7_AbsenceIsLogged ==
    (genus_file.kind = "absent" /\ PlotterReturned) =>
        Said("No taxonomic CSV files found")

(***************************************************************************)
(* C8: a call of the plotter that ends in its except clause has written    *)
(* neither artifact.  Refuted: when writing the summary fails, the image   *)
(* of line 44 is already on disk.                                          *)
(***************************************************************************)
C8_CaughtFailureLeavesNoOutput ==
    Said("Error creating taxonomic plot") =>
        /\ wrote = {}
        /\ png = start.png /\ csv = start.csv

(***************************************************************************)
(* C9: the reporter prints "Found" for every file of every fragment's      *)
(* match set, whatever becomes of loading the earlier ones, and returns.   *)
(* Refuted only through C4: where line 61 raises, nothing is reported and  *)
(* the procedure does not return.                                          *)
(***************************************************************************)
C9_EveryMatchReportedAndReturns ==
    ReporterOver =>
        /\ pc # "crashed"
        /\ \A k \in DOMAIN Fragments : \A f \in Containing(Fragments[k]) : FoundLines(f) # {}

(***************************************************************************)
(* C10: over an empty tree the reporter prints nothing and raises nothing. *)
(* Refuted: line 56 prints the heading before any scan, and line 61 raises *)
(* where the glob rejects the pattern (see C4).                            *)
(***************************************************************************)
C10_EmptyTreePrintsNothing ==
    (AllNames = {} /\ (ReporterOver \/ pc \in {"stats_glob", "stats_files"})) =>
        /\ ~Said("=== Checking for Statistical Results ===")
        /\ pc # "crashed"

====
